---- MODULE Spec2Model ----
(***************************************************************************)
(* Model of the three Playwright screenshot scripts of dustland/openviber: *)
(*   src/verify_landing.py         verify_landing()                        *)
(*   src/verify_landing_mobile.py  verify_landing_mobile()                 *)
(*   src/verify_mobile.py          verify_mobile_pages()                   *)
(*                                                                         *)
(* Each script is a sequential routine.  Every Playwright call is one      *)
(* action; the calls whose outcome depends on the environment (page.goto,  *)
(* page.wait_for_load_state, page.screenshot) either return or raise, and  *)
(* the action follows the try/except structure of the source from there.   *)
(* Python strings are sequences of one-character strings, so that          *)
(* str.replace and str.strip are computed character by character.          *)
(***************************************************************************)
EXTENDS Integers, Sequences, FiniteSets, TLC

(***************************************************************************)
(* Strings                                                                 *)
(***************************************************************************)

\* The characters of a Python str, concatenated into one TLA+ string.
RECURSIVE Join(_)
Join(s) == IF s = <<>> THEN "" ELSE s[1] \o Join(Tail(s))

\* s.replace(old, new) for one-character old and new.
RECURSIVE Replace(_, _, _)
Replace(s, old, new) ==
    IF s = <<>> THEN <<>>
    ELSE <<(IF Head(s) = old THEN new ELSE Head(s))>> \o Replace(Tail(s), old, new)

\* s.lstrip(ch): drop the leading run of ch.
RECURSIVE LStrip(_, _)
LStrip(s, ch) ==
    IF s # <<>> /\ Head(s) = ch THEN LStrip(Tail(s), ch) ELSE s

\* s.rstrip(ch): drop the trailing run of ch.
RECURSIVE RStrip(_, _)
RStrip(s, ch) ==
    IF s # <<>> /\ s[Len(s)] = ch THEN RStrip(SubSeq(s, 1, Len(s) - 1), ch) ELSE s

\* A plausible slip: only the leading run is removed.
StripLeadingOnly(s, ch) == LStrip(s, ch)

\* s.strip(ch): both ends.
Strip(s, ch) == RStrip(LStrip(s, ch), ch)

(***************************************************************************)
(* Literals of the scripts                                                 *)
(***************************************************************************)

PAGES ==
    << <<"/">>,
       <<"/", "l", "a", "n", "d", "i", "n", "g">>,
       <<"/", "d", "o", "c", "s">>,
       <<"/", "h", "u", "b">>,
       <<"/", "l", "o", "g", "i", "n">>,
       <<"/", "o", "n", "b", "o", "a", "r", "d", "i", "n", "g">>,
       <<"/", "o", "b", "s", "e", "r", "v", "a", "b", "i", "l", "i", "t", "y">>,
       <<"/", "t", "a", "s", "k", "s">>,
       <<"/", "v", "i", "b", "e", "r", "s">>,
       <<"/", "s", "e", "t", "t", "i", "n", "g", "s", "/", "g", "e", "n", "e", "r", "a", "l">> >>

BASE_URL == "http://localhost:6006"

\* The one route of the two landing scripts.
LANDING == <<"/", "l", "a", "n", "d", "i", "n", "g">>

Scripts == {"verify_landing", "verify_landing_mobile", "verify_mobile_pages"}

LandingScripts == {"verify_landing", "verify_landing_mobile"}

\* viewport= argument of browser.new_context in each script.
Viewport(s) ==
    IF s = "verify_landing" THEN [width |-> 1440, height |-> 3000]
    ELSE [width |-> 390, height |-> 844]

\* path= argument of page.screenshot in the landing scripts.
LandingShot(s) ==
    IF s = "verify_landing" THEN "verification_landing.png"
    ELSE "verification_landing_mobile.png"

\* url = f"{BASE_URL}{path}"
Url(p) == BASE_URL \o Join(p)

\* filename = path.replace("/", "_").strip("_"); if not filename: filename = "root"
Slug(p) ==
    LET filename == Strip(Replace(p, "/", "_"), "_")
    IN  IF filename = <<>> THEN <<"r", "o", "o", "t">> ELSE filename

\* A slip: the file name is not put into the path.
ScreenshotPath_fixed(fn) == "verification/mobile/filename.png"

\* screenshot_path = f"verification/mobile/{filename}.png"
ScreenshotPath(fn) == "verification/mobile/" \o Join(fn) \o ".png"

\* What the page shows when a navigation has failed.
ErrorPage == "chrome-error://chromewebdata/"

(***************************************************************************)
(* State                                                                   *)
(***************************************************************************)

VARIABLES
    script,           \* which routine runs
    pc,               \* the statement the routine is at
    browser,          \* "none", "open", or "closed" once browser.close() ran
    context,          \* viewport of the browsing context, or "none"
    page,             \* what the page shows: "none" before new_page, else a URL
    idx,              \* position of the for loop in PAGES
    path,             \* loop variable of verify_mobile_pages
    filename,         \* local of verify_mobile_pages
    screenshot_path,  \* local of verify_mobile_pages
    stdout,           \* the line printed last
    files,            \* the disk: file path |-> URL whose rendering it holds
    emptyStart,       \* no screenshot file existed when this run began
    opened,           \* number of browsers, contexts and pages created this run
    called,           \* page methods called this run
    attempted,        \* routes handed to page.goto this run, in call order
    navFailed,        \* loop positions whose page.goto raised
    shotFailed,       \* loop positions whose page.screenshot raised
    writes            \* file path |-> number of times this run wrote it

vars == <<script, pc, browser, context, page, idx, path, filename,
          screenshot_path, stdout, files, emptyStart, opened, called,
          attempted, navFailed, shotFailed, writes>>

\* The locals and the loop state of the routine.
locals == <<idx, path, filename, screenshot_path>>

\* The record of the per-route outcomes.
outcomes == <<navFailed, shotFailed>>

\* f with key k set to v.
Put(f, k, v) == [x \in (DOMAIN f) \cup {k} |-> IF x = k THEN v ELSE f[x]]

\* The number of writes of file k so far in this run.
Count(f, k) == IF k \in DOMAIN f THEN f[k] ELSE 0

\* verify_mobile_pages: the outcomes of the ten routes are recorded for a run
\* that began with no files (the disk then tells nothing about the run).
Rec(S, k) == IF emptyStart THEN S \cup {k} ELSE S

Init ==
    /\ script \in Scripts
    /\ files = <<>>
    /\ emptyStart = TRUE
    /\ pc = "launch"
    /\ browser = "none"
    /\ context = "none"
    /\ page = "none"
    /\ idx = 0
    /\ path = <<>>
    /\ filename = <<>>
    /\ screenshot_path = ""
    /\ stdout = ""
    /\ opened = [browser |-> 0, context |-> 0, page |-> 0]
    /\ called = {}
    /\ attempted = <<>>
    /\ navFailed = {}
    /\ shotFailed = {}
    /\ writes = <<>>

(***************************************************************************)
(* verify_mobile_pages                                                     *)
(***************************************************************************)

Mobile == script = "verify_mobile_pages"

\* with sync_playwright() as p: browser = p.chromium.launch(headless=True)
Mobile_Launch ==
    /\ Mobile /\ pc = "launch"
    /\ browser' = "open"
    /\ opened' = [opened EXCEPT !.browser = @ + 1]
    /\ pc' = "new_context"
    /\ UNCHANGED <<script, context, page, locals, stdout, files, emptyStart,
                   called, attempted, outcomes, writes>>

\* context = browser.new_context(viewport=..., is_mobile=True, ...)
Mobile_NewContext ==
    /\ Mobile /\ pc = "new_context"
    /\ context' = Viewport(script)
    /\ opened' = [opened EXCEPT !.context = @ + 1]
    /\ pc' = "new_page"
    /\ UNCHANGED <<script, browser, page, locals, stdout, files, emptyStart,
                   called, attempted, outcomes, writes>>

\* page = context.new_page(), once, before the loop
Mobile_NewPage ==
    /\ Mobile /\ pc = "new_page"
    /\ page' = "about:blank"
    /\ opened' = [opened EXCEPT !.page = @ + 1]
    /\ pc' = "for"
    /\ UNCHANGED <<script, browser, context, locals, stdout, files, emptyStart,
                   called, attempted, outcomes, writes>>

\* A variant: the loop opens a page of its own for every route.
Mobile_For_newpage ==
    /\ Mobile /\ pc = "for"
    /\ IF idx < Len(PAGES)
       THEN /\ idx' = idx + 1
            /\ path' = PAGES[idx + 1]
            /\ page' = "about:blank"
            /\ opened' = [opened EXCEPT !.page = @ + 1]
            /\ stdout' = "Testing " \o Url(PAGES[idx + 1]) \o "..."
            /\ pc' = "goto"
       ELSE /\ pc' = "close"
            /\ UNCHANGED <<idx, path, stdout, page, opened>>
    /\ UNCHANGED <<script, browser, context, filename, screenshot_path,
                   files, emptyStart, called, attempted, outcomes, writes>>

\* for path in PAGES: url = ...; print(f"Testing {url}...")
Mobile_For ==
    /\ Mobile /\ pc = "for"
    /\ IF idx < Len(PAGES)
       THEN /\ idx' = idx + 1
            /\ path' = PAGES[idx + 1]
            /\ stdout' = "Testing " \o Url(PAGES[idx + 1]) \o "..."
            /\ pc' = "goto"
       ELSE /\ pc' = "close"
            /\ UNCHANGED <<idx, path, stdout>>
    /\ UNCHANGED <<script, browser, context, page, filename, screenshot_path,
                   files, emptyStart, opened, called, attempted, outcomes, writes>>

\* A slip: the handler of a failed navigation leaves the loop.
Mobile_Goto_break ==
    /\ Mobile /\ pc = "goto"
    /\ called' = called \cup {"goto"}
    /\ attempted' = Append(attempted, path)
    /\ \/ /\ page' = Url(path)
          /\ pc' = "wait"
          /\ UNCHANGED <<stdout, navFailed>>
       \/ /\ page' \in {page, ErrorPage}
          /\ stdout' = "Error testing " \o Join(path) \o ": goto"
          /\ navFailed' = Rec(navFailed, idx)
          /\ pc' = "close"
    /\ UNCHANGED <<script, browser, context, locals, files, emptyStart,
                   opened, shotFailed, writes>>

\* A slip: only page.goto is guarded, the capture follows in any case.
Mobile_Goto_fallthrough ==
    /\ Mobile /\ pc = "goto"
    /\ called' = called \cup {"goto"}
    /\ attempted' = Append(attempted, path)
    /\ \/ /\ page' = Url(path)
          /\ pc' = "wait"
          /\ UNCHANGED <<stdout, navFailed>>
       \/ /\ page' \in {page, ErrorPage}
          /\ stdout' = "Error testing " \o Join(path) \o ": goto"
          /\ navFailed' = Rec(navFailed, idx)
          /\ pc' = "wait"
    /\ UNCHANGED <<script, browser, context, locals, files, emptyStart,
                   opened, shotFailed, writes>>

\* try: page.goto(url, timeout=60000) ... except Exception as e: print(...)
Mobile_Goto ==
    /\ Mobile /\ pc = "goto"
    /\ called' = called \cup {"goto"}
    /\ attempted' = Append(attempted, path)
    /\ \/ /\ page' = Url(path)
          /\ pc' = "wait"
          /\ UNCHANGED <<stdout, navFailed>>
       \/ /\ page' \in {page, ErrorPage}
          /\ stdout' = "Error testing " \o Join(path) \o ": goto"
          /\ navFailed' = Rec(navFailed, idx)
          /\ pc' = "for"
    /\ UNCHANGED <<script, browser, context, locals, files, emptyStart,
                   opened, shotFailed, writes>>

\* A slip: no inner try, the timeout goes to the handler of the iteration.
Mobile_WaitForLoadState_uncaught ==
    /\ Mobile /\ pc = "wait"
    /\ called' = called \cup {"wait_for_load_state"}
    /\ \/ /\ pc' = "screenshot"
          /\ UNCHANGED stdout
       \/ /\ stdout' = "Error testing " \o Join(path) \o ": wait_for_load_state"
          /\ pc' = "for"
    /\ UNCHANGED <<script, browser, context, page, locals, files, emptyStart,
                   opened, attempted, outcomes, writes>>

\* try: page.wait_for_load_state("networkidle", timeout=10000)
\* except: print(f"Network idle timeout for {path}, proceeding...")
Mobile_WaitForLoadState ==
    /\ Mobile /\ pc = "wait"
    /\ called' = called \cup {"wait_for_load_state"}
    /\ \/ UNCHANGED stdout
       \/ stdout' = "Network idle timeout for " \o Join(path) \o ", proceeding..."
    /\ pc' = "screenshot"
    /\ UNCHANGED <<script, browser, context, page, locals, files, emptyStart,
                   opened, attempted, outcomes, writes>>

\* filename = ...; screenshot_path = ...; page.screenshot(path=screenshot_path)
\* print(f"Saved screenshot to {screenshot_path}"), or the outer handler
Mobile_Screenshot ==
    /\ Mobile /\ pc = "screenshot"
    /\ called' = called \cup {"screenshot"}
    /\ filename' = Slug(path)
    /\ screenshot_path' = ScreenshotPath(filename')
    /\ \/ /\ files' = Put(files, screenshot_path', page)
          /\ writes' = Put(writes, screenshot_path', Count(writes, screenshot_path') + 1)
          /\ stdout' = "Saved screenshot to " \o screenshot_path'
          /\ UNCHANGED shotFailed
       \/ /\ stdout' = "Error testing " \o Join(path) \o ": screenshot"
          /\ shotFailed' = Rec(shotFailed, idx)
          /\ UNCHANGED <<files, writes>>
    /\ pc' = "for"
    /\ UNCHANGED <<script, browser, context, page, idx, path, emptyStart,
                   opened, attempted, navFailed>>

\* browser.close(), after the loop; the with block ends
Mobile_Close ==
    /\ Mobile /\ pc = "close"
    /\ browser' = "closed"
    /\ pc' = "done"
    /\ UNCHANGED <<script, context, page, locals, stdout, files, emptyStart,
                   opened, called, attempted, outcomes, writes>>

(***************************************************************************)
(* verify_landing and verify_landing_mobile                                *)
(* The two routines are the same statements; they differ in the viewport,  *)
(* in one printed line and in the name of the screenshot file.             *)
(***************************************************************************)

Landing == script \in LandingScripts

\* with sync_playwright() as p: browser = p.chromium.launch(headless=True)
Landing_Launch ==
    /\ Landing /\ pc = "launch"
    /\ browser' = "open"
    /\ opened' = [opened EXCEPT !.browser = @ + 1]
    /\ pc' = "new_context"
    /\ UNCHANGED <<script, context, page, locals, stdout, files, emptyStart,
                   called, attempted, outcomes, writes>>

\* context = browser.new_context(viewport={...})
Landing_NewContext ==
    /\ Landing /\ pc = "new_context"
    /\ context' = Viewport(script)
    /\ opened' = [opened EXCEPT !.context = @ + 1]
    /\ pc' = "new_page"
    /\ UNCHANGED <<script, browser, page, locals, stdout, files, emptyStart,
                   called, attempted, outcomes, writes>>

\* page = context.new_page()
Landing_NewPage ==
    /\ Landing /\ pc = "new_page"
    /\ page' = "about:blank"
    /\ opened' = [opened EXCEPT !.page = @ + 1]
    /\ pc' = "goto"
    /\ UNCHANGED <<script, browser, context, locals, stdout, files, emptyStart,
                   called, attempted, outcomes, writes>>

\* A slip: the handler prints and closes but does not return.
Landing_Goto_noreturn ==
    /\ Landing /\ pc = "goto"
    /\ called' = called \cup {"goto"}
    /\ attempted' = Append(attempted, LANDING)
    /\ \/ /\ page' = Url(LANDING)
          /\ stdout' = "Navigating to landing page..."
          /\ pc' = "wait"
          /\ UNCHANGED <<browser, navFailed>>
       \/ /\ page' \in {page, ErrorPage}
          /\ stdout' = "Failed to navigate: goto"
          /\ navFailed' = navFailed \cup {1}
          /\ browser' = "closed"
          /\ pc' = "wait"
    /\ UNCHANGED <<script, context, locals, files, emptyStart, opened,
                   shotFailed, writes>>

\* print("Navigating to landing page..."); try: page.goto(...)
\* except Exception as e: print(f"Failed to navigate: {e}"); browser.close(); return
Landing_Goto ==
    /\ Landing /\ pc = "goto"
    /\ called' = called \cup {"goto"}
    /\ attempted' = Append(attempted, LANDING)
    /\ \/ /\ page' = Url(LANDING)
          /\ stdout' = "Navigating to landing page..."
          /\ pc' = "wait"
          /\ UNCHANGED <<browser, navFailed>>
       \/ /\ page' \in {page, ErrorPage}
          /\ stdout' = "Failed to navigate: goto"
          /\ navFailed' = navFailed \cup {1}
          /\ browser' = "closed"
          /\ pc' = "done"
    /\ UNCHANGED <<script, context, locals, files, emptyStart, opened,
                   shotFailed, writes>>

\* print("Waiting for network idle..."); page.wait_for_load_state("networkidle")
\* The call is not in a try block: its TimeoutError leaves the routine.
Landing_WaitForLoadState ==
    /\ Landing /\ pc = "wait"
    /\ called' = called \cup {"wait_for_load_state"}
    /\ stdout' = "Waiting for network idle..."
    /\ \/ pc' = "sleep"
       \/ pc' = "raised"
    /\ UNCHANGED <<script, browser, context, page, locals, files, emptyStart,
                   opened, attempted, outcomes, writes>>

\* time.sleep(3)
Landing_Sleep ==
    /\ Landing /\ pc = "sleep"
    /\ called' = called \cup {"sleep"}
    /\ pc' = "screenshot"
    /\ UNCHANGED <<script, browser, context, page, locals, stdout, files,
                   emptyStart, opened, attempted, outcomes, writes>>

\* print("Taking screenshot..."); page.screenshot(path=..., full_page=True)
\* print("Screenshot saved to ...").  Not in a try block either.
Landing_Screenshot ==
    /\ Landing /\ pc = "screenshot"
    /\ called' = called \cup {"screenshot"}
    /\ \/ /\ files' = Put(files, LandingShot(script), page)
          /\ writes' = Put(writes, LandingShot(script),
                           Count(writes, LandingShot(script)) + 1)
          /\ stdout' = "Screenshot saved to " \o LandingShot(script)
          /\ pc' = "close"
          /\ UNCHANGED shotFailed
       \/ /\ stdout' = (IF script = "verify_landing" THEN "Taking screenshot..."
                        ELSE "Taking mobile screenshot...")
          /\ shotFailed' = shotFailed \cup {1}
          /\ pc' = "raised"
          /\ UNCHANGED <<files, writes>>
    /\ UNCHANGED <<script, browser, context, page, locals, emptyStart,
                   opened, attempted, navFailed>>

\* browser.close(); the with block ends
Landing_Close ==
    /\ Landing /\ pc = "close"
    /\ browser' = "closed"
    /\ pc' = "done"
    /\ UNCHANGED <<script, context, page, locals, stdout, files, emptyStart,
                   opened, called, attempted, outcomes, writes>>

(***************************************************************************)
(* The scripts as processes                                                *)
(***************************************************************************)

\* The routine has ended: it returned, or an exception left it.
Ended == pc \in {"done", "raised"}

\* if __name__ == "__main__": the script is run once more, on the same disk.
Rerun ==
    /\ Ended
    /\ pc' = "launch"
    /\ browser' = "none"
    /\ context' = "none"
    /\ page' = "none"
    /\ idx' = 0
    /\ path' = <<>>
    /\ filename' = <<>>
    /\ screenshot_path' = ""
    /\ stdout' = ""
    /\ opened' = [browser |-> 0, context |-> 0, page |-> 0]
    /\ called' = {}
    /\ attempted' = <<>>
    /\ navFailed' = {}
    /\ shotFailed' = {}
    /\ writes' = <<>>
    /\ emptyStart' = (DOMAIN files = {})
    /\ UNCHANGED <<script, files>>

\* One statement of the running routine.
Next ==
    \/ Mobile_Launch
    \/ Mobile_NewContext
    \/ Mobile_NewPage
    \/ Mobile_For
    \/ Mobile_Goto
    \/ Mobile_WaitForLoadState
    \/ Mobile_Screenshot
    \/ Mobile_Close
    \/ Landing_Launch
    \/ Landing_NewContext
    \/ Landing_NewPage
    \/ Landing_Goto
    \/ Landing_WaitForLoadState
    \/ Landing_Sleep
    \/ Landing_Screenshot
    \/ Landing_Close

\* One invocation of a script, in a directory without screenshot files.
Spec == Init /\ [][Next]_vars

RerunNext == Next \/ Rerun

\* Any number of invocations of a script, one after the other.
RerunSpec == Init /\ [][RerunNext]_vars

(***************************************************************************)
(* Slug derivation on its own: the capture statement of                    *)
(* verify_mobile_pages, entered with an arbitrary route in path.           *)
(***************************************************************************)

MaxLen == 4

SlugAlphabet == {"/", "_", "a"}

RECURSIVE StringsUpTo(_)
StringsUpTo(n) ==
    IF n = 0 THEN {<<>>}
    ELSE LET shorter == StringsUpTo(n - 1)
         IN  shorter \cup {Append(w, c) : w \in shorter, c \in SlugAlphabet}

SlugInputs == {PAGES[k] : k \in 1..Len(PAGES)} \cup StringsUpTo(MaxLen)

SlugInit ==
    /\ script = "verify_mobile_pages"
    /\ path \in SlugInputs
    /\ pc = "screenshot"
    /\ browser = "open"
    /\ context = Viewport(script)
    /\ page = Url(path)
    /\ idx = 1
    /\ filename = <<>>
    /\ screenshot_path = ""
    /\ stdout = "Testing " \o Url(path) \o "..."
    /\ files = <<>>
    /\ emptyStart = TRUE
    /\ opened = [browser |-> 1, context |-> 1, page |-> 1]
    /\ called = {"goto", "wait_for_load_state"}
    /\ attempted = <<path>>
    /\ navFailed = {}
    /\ shotFailed = {}
    /\ writes = <<>>

SlugNext == Mobile_Screenshot

SlugSpec == SlugInit /\ [][SlugNext]_vars

(***************************************************************************)
(* Properties                                                              *)
(***************************************************************************)

Routes == 1..Len(PAGES)

\* The screenshot file expected for each route of PAGES, written out.
RouteFile ==
    << "verification/mobile/root.png",
       "verification/mobile/landing.png",
       "verification/mobile/docs.png",
       "verification/mobile/hub.png",
       "verification/mobile/login.png",
       "verification/mobile/onboarding.png",
       "verification/mobile/observability.png",
       "verification/mobile/tasks.png",
       "verification/mobile/vibers.png",
       "verification/mobile/settings_general.png" >>

\* The routes whose loop iteration is over.
Finished == IF pc \in {"goto", "wait", "screenshot"} THEN 1..(idx - 1) ELSE 1..idx

\* Statements of verify_mobile_pages in execution order.
MobileRank(p, i) ==
    CASE p = "launch"      -> 0
      [] p = "new_context" -> 1
      [] p = "new_page"    -> 2
      [] p = "goto"        -> 4 * i
      [] p = "wait"        -> 4 * i + 1
      [] p = "screenshot"  -> 4 * i + 2
      [] p = "for"         -> 4 * i + 3
      [] p = "close"       -> 4 * Len(PAGES) + 4
      [] p = "done"        -> 4 * Len(PAGES) + 5
      [] OTHER             -> -1

\* C1: in verify_mobile_pages, whatever the outcomes of the routes, page.goto
\* is called for every route of PAGES exactly once and in list order: the
\* routes attempted so far are always the first routes of PAGES up to the
\* loop position, the loop is left only with all ten attempted, and the run
\* terminates: until it is done a statement can always run, and every
\* statement moves the routine forward in a bounded order.
C1_EveryRouteAttemptedInOrder ==
    /\ [](Mobile =>
            /\ Len(attempted) = (IF pc = "goto" THEN idx - 1 ELSE idx)
            /\ Len(attempted) <= Len(PAGES)
            /\ attempted = SubSeq(PAGES, 1, Len(attempted)))
    /\ [](Mobile /\ pc \in {"close", "done"} => attempted = PAGES)
    /\ [](Mobile /\ pc # "done" => ENABLED Next)
    /\ [](Mobile => MobileRank(pc, idx) \in 0..(4 * Len(PAGES) + 5))
    /\ [][Mobile /\ pc # "done" => MobileRank(pc', idx') > MobileRank(pc, idx)]_vars

\* C1 case: the first route failed to load, a later capture failed too, and
\* the run still ended with all ten routes attempted.
C1_Witness ==
    /\ Mobile /\ pc = "done"
    /\ 1 \in navFailed
    /\ shotFailed # {}
    /\ attempted = PAGES

\* C2: in a run of verify_mobile_pages that began with no files, the files on
\* disk are exactly the route-derived paths of the finished routes whose
\* navigation and capture both succeeded; with one route failing to load and
\* the other nine captured there are nine files at the end, and the run ends
\* normally with the browser closed.
C2_FilesAreTheCapturedRoutes ==
    Mobile /\ emptyStart =>
        /\ DOMAIN files = {RouteFile[k] : k \in Finished \ (navFailed \cup shotFailed)}
        /\ \A k \in navFailed : RouteFile[k] \notin DOMAIN files
        /\ pc # "raised"
        /\ pc = "done" =>
              /\ browser = "closed"
              /\ Cardinality(DOMAIN files) =
                     Len(PAGES) - Cardinality(navFailed \cup shotFailed)
              /\ (Cardinality(navFailed) = 1 /\ shotFailed = {}) =>
                     Cardinality(DOMAIN files) = 9

\* C2 case: /login alone is unreachable; nine files, run done, browser closed.
C2_Witness ==
    /\ Mobile /\ pc = "done" /\ emptyStart
    /\ navFailed = {5} /\ PAGES[5] = <<"/", "l", "o", "g", "i", "n">>
    /\ shotFailed = {}
    /\ Cardinality(DOMAIN files) = 9
    /\ browser = "closed"

\* C3 (as claimed): in every script, when the network-idle wait times out
\* after a successful navigation the routine goes on to the screenshot: the
\* statement after the wait is the settle sleep or the capture, never the
\* end of the routine.
C3_IdleTimeoutNeverAborts ==
    [][pc = "wait" => pc' \in {"sleep", "screenshot"}]_vars

\* C4 (as claimed): in every script, whenever the routine has ended, by
\* return or by an exception, browser.close() has been executed.
C4_BrowserClosedOnEveryExit ==
    Ended => browser = "closed"

\* C5 (as claimed): in every script no failure of a step leaves the routine
\* as an exception; the routine always returns normally.
C5_NoErrorLeavesTheRoutine ==
    pc # "raised"

\* C6: in verify_landing and verify_landing_mobile, once page.goto has
\* failed the routine has returned normally with the browser closed, and
\* neither wait_for_load_state, nor sleep, nor screenshot has been called:
\* the run wrote no file.
C6_LandingNavigationFailure ==
    Landing /\ navFailed # {} =>
        /\ pc = "done"
        /\ browser = "closed"
        /\ called = {"goto"}
        /\ DOMAIN writes = {}
        /\ (emptyStart => DOMAIN files = {})

\* C6 case: a landing script whose navigation failed.
C6_Witness ==
    /\ Landing /\ navFailed = {1}
    /\ stdout = "Failed to navigate: goto"
    /\ pc = "done"

C8_SlugDerivation ==
    screenshot_path # "" =>
        LET core == {k \in 1..Len(path) : path[k] \notin {"/", "_"}}
            lo == CHOOSE k \in core : \A m \in core : k <= m
            hi == CHOOSE k \in core : \A m \in core : k >= m
            slug == IF core = {} THEN <<"r", "o", "o", "t">>
                    ELSE [k \in 1..(hi - lo + 1) |->
                             IF path[lo + k - 1] = "/" THEN "_" ELSE path[lo + k - 1]]
        IN  /\ filename = slug
            /\ screenshot_path = "verification/mobile/" \o Join(slug) \o ".png"
            /\ \A k \in Routes : path = PAGES[k] => screenshot_path = RouteFile[k]
            /\ path = PAGES[10] =>
                   screenshot_path = "verification/mobile/settings_general.png"
            /\ path = <<"/">> => screenshot_path = "verification/mobile/root.png"
            /\ DOMAIN files \subseteq {screenshot_path}

\* C8 case: the capture of /settings/general was saved.
C8_Witness ==
    /\ path = <<"/", "s", "e", "t", "t", "i", "n", "g", "s", "/",
                "g", "e", "n", "e", "r", "a", "l">>
    /\ stdout = "Saved screenshot to verification/mobile/settings_general.png"
    /\ DOMAIN files = {"verification/mobile/settings_general.png"}

\* C9: over any number of runs of verify_mobile_pages, the ten routes have
\* ten pairwise distinct file paths, the disk holds no screenshot file other
\* than these (so at most one per route, however often the script ran), no
\* path is written twice in one run, and a capture writes the file of its
\* own route, creating or overwriting it, and leaves every other file as it
\* was.
C9_OneFilePerRoute ==
    /\ [](Mobile =>
            /\ \A j, k \in Routes : j # k => RouteFile[j] # RouteFile[k]
            /\ DOMAIN files \subseteq {RouteFile[k] : k \in Routes}
            /\ Cardinality(DOMAIN files) <= Len(PAGES)
            /\ DOMAIN writes \subseteq DOMAIN files
            /\ \A f \in DOMAIN writes : writes[f] = 1)
    /\ [][Mobile /\ ~Ended /\ writes' # writes =>
            /\ idx \in Routes
            /\ DOMAIN files' = DOMAIN files \cup {RouteFile[idx]}
            /\ \A f \in DOMAIN files \ {RouteFile[idx]} : files'[f] = files[f]]_vars

\* C9 case: a later run has rewritten all ten files, at least one of which
\* was on disk before the run began.
C9_Witness ==
    /\ Mobile /\ pc = "done" /\ ~emptyStart
    /\ Cardinality(DOMAIN writes) = 10
    /\ Cardinality(DOMAIN files) = 10

\* C10: in verify_mobile_pages every file holds the rendering of its own
\* route: a file is written only by the capture statement, while the page
\* shows the URL of the route of this iteration, whose page.goto was the last
\* navigation attempted and did not fail; an iteration whose navigation
\* failed goes to the next route with the disk unchanged.
C10_CaptureShowsOwnRoute ==
    /\ [](Mobile =>
            /\ \A k \in Routes : RouteFile[k] \in DOMAIN files =>
                   files[RouteFile[k]] = Url(PAGES[k])
            /\ pc \in {"wait", "screenshot"} =>
                   /\ page = Url(path)
                   /\ idx \notin navFailed
                   /\ attempted[Len(attempted)] = path)
    /\ [][Mobile /\ files' # files =>
            /\ pc = "screenshot"
            /\ page = Url(PAGES[idx])
            /\ files' = Put(files, RouteFile[idx], Url(PAGES[idx]))]_vars
    /\ [][Mobile /\ pc = "goto" /\ pc' # "wait" =>
            /\ pc' = "for"
            /\ UNCHANGED <<files, writes>>]_vars

\* C10 case: a navigation failed while the page still showed the route
\* before it, and the failed route has no file.
C10_Witness ==
    /\ Mobile /\ pc = "for"
    /\ idx \in navFailed /\ idx > 1
    /\ page = Url(PAGES[idx - 1])
    /\ RouteFile[idx - 1] \in DOMAIN files
    /\ RouteFile[idx] \notin DOMAIN files

====
